---------------------------- MODULE Spec2Model ----------------------------
(***************************************************************************)
(* The 28-day consistency score engine (functions/src/scoring.ts and its   *)
(* types), modelled as a state machine: a session list is built, then      *)
(* calculateConsistencyScore is applied to it and a reference instant.     *)
(*                                                                         *)
(* A JavaScript Date is the record [day, ms]: the number of whole days     *)
(* since 1970-01-01 UTC and the milliseconds elapsed within that UTC day.  *)
(* Its time value is day * MS_PER_DAY + ms; the pair is kept apart because *)
(* 28 days of milliseconds exceed 32-bit integers.                         *)
(* An ISO date string "YYYY-MM-DD" is the record [year, month, date] of    *)
(* its three fields (month 1..12).                                         *)
(* A fractional number (a subscore, the average) is an exact fraction      *)
(* [num, den] with den > 0.                                                *)
(***************************************************************************)
EXTENDS Integers, Sequences, FiniteSets, TLC

VARIABLES referenceDate, sessions, pc, metrics, result, store, request,
          snapshot, response

vars ==
    <<referenceDate, sessions, pc, metrics, result, store, request, snapshot,
      response>>

(***************************************************************************)
(* Bounds of the model.                                                    *)
(***************************************************************************)
MaxSessions == 3

MaxPrefix == 1

MaxStored == 1

(***************************************************************************)
(* Program constants.                                                      *)
(***************************************************************************)
MS_PER_DAY == 1000 * 60 * 60 * 24

TotalDays == 28

(***************************************************************************)
(* The Date arithmetic of the JavaScript runtime (ECMAScript Date, UTC).   *)
(***************************************************************************)
DayFromYear(y) ==
    365 * (y - 1970) + ((y - 1969) \div 4) - ((y - 1901) \div 100)
        + ((y - 1601) \div 400)

InLeapYear(y) == (y % 4 = 0) /\ ((y % 100 # 0) \/ (y % 400 = 0))

DaysInMonth(y, m) ==
    IF m = 1 THEN (IF InLeapYear(y) THEN 29 ELSE 28)
    ELSE IF m \in {3, 5, 8, 10} THEN 30
    ELSE 31

\* YearFromTime: the year whose first day is the latest one not after `day`
\* (a year has 365 or 366 days: it lies between 1970 + day / 366 and
\* 1970 + day / 365, whichever is the lower for the sign of `day`)
YearFromDay(day) ==
    LET a == 1970 + (day \div 366)
        b == 1970 + (day \div 365)
    IN  CHOOSE y \in (IF a <= b THEN a ELSE b)..(IF a <= b THEN b ELSE a) :
            DayFromYear(y) <= day /\ day < DayFromYear(y + 1)

\* the number of days of year y before its month m (0 = January)
DaysBeforeMonth(y, m) ==
    <<0, 31, 59, 90, 120, 151, 181, 212, 243, 273, 304, 334>>[m + 1]
        + (IF m >= 2 /\ InLeapYear(y) THEN 1 ELSE 0)

\* MonthFromTime, 0 = January .. 11 = December, of day dayInYear of year y
MonthInYear(y, dayInYear) ==
    CHOOSE m \in 0..11 :
        /\ DaysBeforeMonth(y, m) <= dayInYear
        /\ dayInYear < DaysBeforeMonth(y, m) + DaysInMonth(y, m)

\* YearFromTime, MonthFromTime and DateFromTime of epoch day `day`
Civil(day) ==
    LET y == YearFromDay(day)
        dayInYear == day - DayFromYear(y)
        m == MonthInYear(y, dayInYear)
    IN  [year |-> y, month |-> m,
         date |-> dayInYear - DaysBeforeMonth(y, m) + 1]

\* Date.prototype.getUTCDate: the day of the month, 1..31
getUTCDate(t) == Civil(t.day).date

\* Date.prototype.getUTCDay: 0 = Sunday .. 6 = Saturday
getUTCDay(t) == (t.day + 4) % 7

\* MakeDay(year, month, date) for a month in 0..11 and any integer date
MakeDay(year, month, date) ==
    DayFromYear(year) + DaysBeforeMonth(year, month) + date - 1

\* Date.prototype.setUTCDate: keeps year, month and time of day
setUTCDate(t, date) ==
    LET c == Civil(t.day)
    IN  [day |-> MakeDay(c.year, c.month, date), ms |-> t.ms]

MakeTime(h, m, s, milli) == ((h * 60 + m) * 60 + s) * 1000 + milli

\* Date.prototype.setUTCHours(h, m, s, ms): keeps the UTC day
setUTCHours(t, h, m, s, milli) ==
    [day |-> t.day, ms |-> MakeTime(h, m, s, milli)]

\* toISOString().split("T")[0]
toISODate(t) ==
    LET c == Civil(t.day)
    IN  [year |-> c.year, month |-> c.month + 1, date |-> c.date]

\* new Date(d + "T00:00:00Z")
parseISODate(d) ==
    [day |-> MakeDay(d.year, d.month - 1, d.date), ms |-> 0]

\* a <= b on Date objects (comparison of the time values)
DateLeq(a, b) == (a.day < b.day) \/ (a.day = b.day /\ a.ms <= b.ms)

\* Math.floor((a.getTime() - b.getTime()) / (1000 * 60 * 60 * 24))
FloorDays(a, b) == (a.day - b.day) + ((a.ms - b.ms) \div MS_PER_DAY)

(***************************************************************************)
(* Exact fractions for the JavaScript numbers that are not integers.       *)
(***************************************************************************)
Rat(n, d) == [num |-> n, den |-> d]

RatAdd(a, b) == Rat(a.num * b.den + b.num * a.den, a.den * b.den)

RatLeq(a, b) == a.num * b.den <= b.num * a.den

RatEq(a, b) == a.num * b.den = b.num * a.den

RatFloor(a) == a.num \div a.den

\* the nearest integer, a tie going up
RoundHalfUp(a) == (2 * a.num + a.den) \div (2 * a.den)

(***************************************************************************)
(* Map<string, number>: the entries in insertion order.                    *)
(* weeklyDistribution, a JavaScript array indexed 0..6, is the sequence    *)
(* whose element d + 1 is the array's element d.                           *)
(***************************************************************************)
MapHas(map, key) == \E i \in 1..Len(map) : map[i].key = key

\* map.get(key) || 0
MapGetOrZero(map, key) ==
    IF MapHas(map, key)
    THEN map[CHOOSE i \in 1..Len(map) : map[i].key = key].value
    ELSE 0

\* map.set(key, value): an existing key keeps its position
MapSet(map, key, value) ==
    IF MapHas(map, key)
    THEN LET i == CHOOSE j \in 1..Len(map) : map[j].key = key
         IN  [map EXCEPT ![i] = [key |-> key, value |-> value]]
    ELSE Append(map, [key |-> key, value |-> value])

\* Array.from(map.keys())
MapKeys(map) == [i \in 1..Len(map) |-> map[i].key]

(***************************************************************************)
(* calculateMetrics                                                        *)
(***************************************************************************)
\* InPeriod with the end of the period excluded
InPeriodExclusiveEnd(s, periodStart, periodEnd) ==
    DateLeq(periodStart, s.startDate) /\ ~DateLeq(periodEnd, s.startDate)

\* s.startDate >= periodStart && s.startDate <= periodEnd
InPeriod(s, periodStart, periodEnd) ==
    DateLeq(periodStart, s.startDate) /\ DateLeq(s.startDate, periodEnd)

RelevantSessions(list, periodStart, periodEnd) ==
    SelectSeq(list, LAMBDA s : InPeriod(s, periodStart, periodEnd))

\* one iteration of the loop that groups the relevant sessions by day
GroupSession(acc, session) ==
    LET dateKey == toISODate(session.startDate)
        dayOfWeek == getUTCDay(session.startDate)
    IN  [sessionsByDay |->
            MapSet(acc.sessionsByDay, dateKey,
                   MapGetOrZero(acc.sessionsByDay, dateKey) + 1),
         weeklyDistribution |->
            [acc.weeklyDistribution EXCEPT ![dayOfWeek + 1] = @ + 1]]

\* the loop, from session i on, with the map and the array built so far.
\* (The map never has more entries than sessions seen, so the second test
\* never ends the loop: it makes acc a value before the next iteration.)
RECURSIVE GroupByDay(_, _, _)
GroupByDay(relevant, i, acc) ==
    IF i > Len(relevant) \/ Len(acc.sessionsByDay) >= i THEN acc
    ELSE GroupByDay(relevant, i + 1, GroupSession(acc, relevant[i]))

\* sessionsByDay and weeklyDistribution after the loop
GroupSessions(relevant) ==
    GroupByDay(relevant, 1,
               [sessionsByDay |-> <<>>,
                weeklyDistribution |-> <<0, 0, 0, 0, 0, 0, 0>>])

\* Array.prototype.sort((a, b) => a.getTime() - b.getTime()): a stable sort,
\* here by inserting each date after the sorted ones that are not later
InsertDate(sorted, x) ==
    SelectSeq(sorted, LAMBDA d : DateLeq(d, x)) \o <<x>>
        \o SelectSeq(sorted, LAMBDA d : ~DateLeq(d, x))

RECURSIVE SortFrom(_, _, _)
SortFrom(dates, i, sorted) ==
    IF i > Len(dates) \/ Len(sorted) >= i THEN sorted
    ELSE SortFrom(dates, i + 1, InsertDate(sorted, dates[i]))

\* SortDates that leaves the dates in the order of the map
SortDatesUnsorted(dates) == dates

SortDates(dates) == SortFrom(dates, 1, <<>>)

\* .map(d => new Date(d + "T00:00:00Z"))
RECURSIVE ParseKeys(_, _, _)
ParseKeys(keys, i, parsed) ==
    IF i > Len(keys) \/ Len(parsed) >= i THEN parsed
    ELSE ParseKeys(keys, i + 1, Append(parsed, parseISODate(keys[i])))

ActiveDates(sessionsByDay) ==
    SortDates(ParseKeys(MapKeys(sessionsByDay), 1, <<>>))

Max(a, b) == IF a >= b THEN a ELSE b

Min(a, b) == IF a <= b THEN a ELSE b

\* GapFromStart that leaves out the first day of the period
GapFromStartStrict(activeDates, periodStart) ==
    FloorDays(activeDates[1], periodStart) - 1

\* gap from period start to first activity
GapFromStart(activeDates, periodStart) ==
    FloorDays(activeDates[1], periodStart)

\* gap between activities i - 1 and i
GapBetween(activeDates, i) ==
    FloorDays(activeDates[i], activeDates[i - 1]) - 1

\* GapToEnd that leaves out the last day of the period
GapToEndStrict(activeDates, periodEnd) ==
    FloorDays(periodEnd, activeDates[Len(activeDates)]) - 1

\* gap from last activity to period end
GapToEnd(activeDates, periodEnd) ==
    FloorDays(periodEnd, activeDates[Len(activeDates)])

\* the loop over the gaps between activities, from index i on (index 2 is
\* the code's i = 1)
RECURSIVE MaxGapBetween(_, _, _)
MaxGapBetween(activeDates, i, maxGap) ==
    IF i > Len(activeDates) \/ maxGap < 0 THEN maxGap
    ELSE MaxGapBetween(activeDates, i + 1,
                       Max(maxGap, GapBetween(activeDates, i)))

\* calculateLongestGap without the case of the empty map: no gap is found
calculateLongestGapNoEmptyCase(sessionsByDay, periodStart, periodEnd) ==
    IF Len(sessionsByDay) = 0 THEN 0
    ELSE LET activeDates == ActiveDates(sessionsByDay)
             afterStart == Max(0, GapFromStart(activeDates, periodStart))
             afterLoop == MaxGapBetween(activeDates, 2, afterStart)
         IN  Max(afterLoop, GapToEnd(activeDates, periodEnd))

calculateLongestGap(sessionsByDay, periodStart, periodEnd) ==
    IF Len(sessionsByDay) = 0 THEN 28
    ELSE LET activeDates == ActiveDates(sessionsByDay)
             afterStart == Max(0, GapFromStart(activeDates, periodStart))
             afterLoop == MaxGapBetween(activeDates, 2, afterStart)
         IN  Max(afterLoop, GapToEnd(activeDates, periodEnd))

calculateMetrics(list, periodStart, periodEnd) ==
    LET relevantSessions == RelevantSessions(list, periodStart, periodEnd)
        grouped == GroupSessions(relevantSessions)
        daysWithActivity == Len(grouped.sessionsByDay)
        totalSessions == Len(relevantSessions)
    IN  [totalDays |-> TotalDays,
         daysWithActivity |-> daysWithActivity,
         longestGap |->
             calculateLongestGap(grouped.sessionsByDay, periodStart, periodEnd),
         averageSessionsPerActiveDay |->
             IF daysWithActivity > 0
             THEN Rat(totalSessions, daysWithActivity)
             ELSE Rat(0, 1),
         weeklyDistribution |-> grouped.weeklyDistribution,
         totalSessions |-> totalSessions]

(***************************************************************************)
(* The four score components.                                              *)
(***************************************************************************)
CountPositive(weeklyDistribution) ==
    Cardinality({d \in 0..6 : weeklyDistribution[d + 1] > 0})

\* calculateFrequencyScore with 40 points at most
calculateFrequencyScoreOf40(m) == Rat(m.daysWithActivity * 40, m.totalDays)

calculateFrequencyScore(m) == Rat(m.daysWithActivity * 50, m.totalDays)

\* calculateGapScore with the linear part divided by 14 instead of 11
calculateGapScoreBy14(m) ==
    IF m.longestGap <= 3 THEN Rat(25, 1)
    ELSE IF m.longestGap >= 14 THEN Rat(0, 1)
    ELSE Rat((14 - m.longestGap) * 25, 14)

\* calculateGapScore without the penalty: full points for every gap
calculateGapScoreNoPenalty(m) == Rat(25, 1)

calculateGapScore(m) ==
    IF m.longestGap <= 3 THEN Rat(25, 1)
    ELSE IF m.longestGap >= 14 THEN Rat(0, 1)
    ELSE Rat((14 - m.longestGap) * 25, 11)

calculateDistributionScore(m) ==
    IF m.daysWithActivity = 0 THEN Rat(0, 1)
    ELSE Rat(CountPositive(m.weeklyDistribution) * 15, 7)

\* calculateIntensityScore without the linear part between 1 and 2
calculateIntensityScoreNoBonus(m) ==
    IF m.daysWithActivity = 0 THEN Rat(0, 1)
    ELSE IF RatLeq(Rat(2, 1), m.averageSessionsPerActiveDay) THEN Rat(10, 1)
    ELSE Rat(0, 1)

calculateIntensityScore(m) ==
    IF m.daysWithActivity = 0 THEN Rat(0, 1)
    ELSE LET ratio == m.averageSessionsPerActiveDay
         IN  IF RatLeq(Rat(2, 1), ratio) THEN Rat(10, 1)
             ELSE IF RatLeq(ratio, Rat(1, 1)) THEN Rat(0, 1)
             ELSE Rat((ratio.num - ratio.den) * 10, ratio.den)

\* frequencyScore + gapScore + distributionScore + intensityScore, exactly
SumOfScores(m) ==
    RatAdd(RatAdd(RatAdd(calculateFrequencyScore(m), calculateGapScore(m)),
                  calculateDistributionScore(m)),
           calculateIntensityScore(m))

\* The sum is computed in IEEE-754 doubles.  For the metrics a 28-day window
\* can produce, the double differs from the exact sum enough to change
\* Math.round only in these cases, where the exact sum is n + 1/2 and the double
\* lies just below it: <<daysWithActivity, longestGap class, weekdays, sessions>>
DoubleSumBelowHalf(m) ==
    LET gapClass == IF m.longestGap <= 3 THEN 3
                    ELSE IF m.longestGap >= 14 THEN 14
                    ELSE m.longestGap
    IN  <<m.daysWithActivity, gapClass, CountPositive(m.weeklyDistribution),
          m.totalSessions>>
            \in {<<7, 14, 4, 8>>, <<11, 3, 6, 11>>, <<11, 9, 6, 15>>,
                 <<11, 10, 6, 12>>, <<11, 11, 6, 20>>}

\* Math.round(frequencyScore + gapScore + distributionScore + intensityScore)
TotalScore(m) ==
    IF DoubleSumBelowHalf(m)
    THEN RatFloor(SumOfScores(m))
    ELSE RoundHalfUp(SumOfScores(m))

(***************************************************************************)
(* generateExplanations                                                    *)
(***************************************************************************)
Digit(n) ==
    CASE n = 0 -> "0" [] n = 1 -> "1" [] n = 2 -> "2" [] n = 3 -> "3"
      [] n = 4 -> "4" [] n = 5 -> "5" [] n = 6 -> "6" [] n = 7 -> "7"
      [] n = 8 -> "8" [] n = 9 -> "9"

\* the decimal text of a non-negative integer in a template literal
RECURSIVE IntToStr(_)
IntToStr(n) ==
    IF n < 10 THEN Digit(n) ELSE IntToStr(n \div 10) \o Digit(n % 10)

\* Number.prototype.toFixed(1) rounds the double to the nearest tenth, a tie
\* going up.  The double of a quotient whose exact value is k + 1/20 may lie
\* below that tie: these are the tenths (floor of 10 * x, for x < 8) where it
\* does, for quotients that are not binary fractions.
TenthsBelowTie ==
    {11, 14, 16, 19, 20, 21, 25, 26, 30, 31, 35, 36, 40, 43, 45, 48, 50, 53, 55,
     58, 60, 63, 65, 68, 70, 73, 75, 78}

IsBinaryFraction(x) == \E k \in 0..6 : (x.num * (2 ^ k)) % x.den = 0

Tenths(x) ==
    LET lower == (10 * x.num) \div x.den
        tie == 20 * x.num = (2 * lower + 1) * x.den
    IN  IF tie /\ ~IsBinaryFraction(x) /\ lower \in TenthsBelowTie
        THEN lower
        ELSE (20 * x.num + x.den) \div (2 * x.den)

toFixed1(x) == IntToStr(Tenths(x) \div 10) \o "." \o IntToStr(Tenths(x) % 10)

GapSentence(m) ==
    IF m.longestGap = 0 THEN "Amazing! No gaps in your training"
    ELSE IF m.longestGap = 1 THEN "Longest break: 1 day"
    ELSE "Longest break: " \o IntToStr(m.longestGap) \o " days"

SpreadSentences(m) ==
    LET daysOfWeek == CountPositive(m.weeklyDistribution)
    IN  IF daysOfWeek >= 6
        THEN <<"Great variety! You trained on 6+ different weekdays">>
        ELSE IF daysOfWeek >= 4
        THEN <<"Good spread across " \o IntToStr(daysOfWeek)
                   \o " different weekdays">>
        ELSE IF daysOfWeek > 0
        THEN <<"Training focused on " \o IntToStr(daysOfWeek) \o " weekdays">>
        ELSE <<>>

\* IntensitySentences for every average above 1
IntensitySentencesAboveOne(m) ==
    IF ~RatLeq(m.averageSessionsPerActiveDay, Rat(1, 1))
    THEN <<"High intensity: " \o toFixed1(m.averageSessionsPerActiveDay)
               \o " sessions per active day">>
    ELSE <<>>

\* IntensitySentences for an average above 1.4 only
IntensitySentencesAbove(m) ==
    IF ~RatLeq(m.averageSessionsPerActiveDay, Rat(14, 10))
    THEN <<"High intensity: " \o toFixed1(m.averageSessionsPerActiveDay)
               \o " sessions per active day">>
    ELSE <<>>

IntensitySentences(m) ==
    IF RatLeq(Rat(14, 10), m.averageSessionsPerActiveDay)
    THEN <<"High intensity: " \o toFixed1(m.averageSessionsPerActiveDay)
               \o " sessions per active day">>
    ELSE <<>>

generateExplanations(m) ==
    <<"You trained on " \o IntToStr(m.daysWithActivity) \o " out of 28 days",
      GapSentence(m)>>
        \o SpreadSentences(m) \o IntensitySentences(m)

(***************************************************************************)
(* generateChartData                                                       *)
(***************************************************************************)
\* CountSession that marks the day instead of counting its sessions
CountSessionOnce(countsByDay, session) ==
    MapSet(countsByDay, toISODate(session.startDate), 1)

CountSession(countsByDay, session) ==
    LET dateKey == toISODate(session.startDate)
    IN  MapSet(countsByDay, dateKey, MapGetOrZero(countsByDay, dateKey) + 1)

\* the loop over the relevant sessions, from session i on
RECURSIVE CountsByDay(_, _, _)
CountsByDay(relevant, i, countsByDay) ==
    IF i > Len(relevant) \/ Len(countsByDay) >= i THEN countsByDay
    ELSE CountsByDay(relevant, i + 1, CountSession(countsByDay, relevant[i]))

\* one iteration of the loop over the 28 days: an entry is pushed for the
\* date of current, then current moves one day on
ChartStep(countsByDay, loop) ==
    LET dateKey == toISODate(loop.current)
    IN  [chartData |->
            Append(loop.chartData,
                   [date |-> dateKey,
                    count |-> MapGetOrZero(countsByDay, dateKey)]),
         current |->
            setUTCDate(loop.current, getUTCDate(loop.current) + 1)]

RECURSIVE ChartLoop(_, _, _)
ChartLoop(countsByDay, i, loop) ==
    IF i >= 28 \/ Len(loop.chartData) > i THEN loop.chartData
    ELSE ChartLoop(countsByDay, i + 1, ChartStep(countsByDay, loop))

generateChartData(list, periodStart, periodEnd) ==
    LET relevantSessions == RelevantSessions(list, periodStart, periodEnd)
        countsByDay == CountsByDay(relevantSessions, 1, <<>>)
    IN  ChartLoop(countsByDay, 0, [chartData |-> <<>>, current |-> periodStart])

(***************************************************************************)
(* calculateConsistencyScore                                               *)
(***************************************************************************)
PeriodEnd(reference) == setUTCHours(reference, 23, 59, 59, 999)

\* PeriodStart that goes back 28 days instead of 27
PeriodStartMinus28(reference) ==
    LET periodEnd == PeriodEnd(reference)
    IN  setUTCHours(setUTCDate(periodEnd, getUTCDate(periodEnd) - 28),
                    0, 0, 0, 0)

PeriodStart(reference) ==
    LET periodEnd == PeriodEnd(reference)
    IN  setUTCHours(setUTCDate(periodEnd, getUTCDate(periodEnd) - 27),
                    0, 0, 0, 0)

\* const metrics = calculateMetrics(sessions, periodStart, periodEnd)
MetricsOf(list, reference) ==
    calculateMetrics(list, PeriodStart(reference), PeriodEnd(reference))

\* ScoreResult without the clamp, the intensity bonus taken as ten times the
\* average instead of the capped component
ScoreResultUnclamped(list, reference, m) ==
    LET periodEnd == PeriodEnd(reference)
        periodStart == PeriodStart(reference)
        avg == m.averageSessionsPerActiveDay
    IN  [score |->
            RoundHalfUp(RatAdd(RatAdd(RatAdd(calculateFrequencyScore(m),
                                             calculateGapScore(m)),
                                      calculateDistributionScore(m)),
                               Rat(10 * avg.num, avg.den))),
         explanations |-> generateExplanations(m),
         chartData |-> generateChartData(list, periodStart, periodEnd),
         periodStart |-> toISODate(periodStart),
         periodEnd |-> toISODate(periodEnd)]

\* the rest of calculateConsistencyScore, given its metrics m
ScoreResult(list, reference, m) ==
    LET periodEnd == PeriodEnd(reference)
        periodStart == PeriodStart(reference)
    IN  [score |-> Min(100, Max(0, TotalScore(m))),
         explanations |-> generateExplanations(m),
         chartData |-> generateChartData(list, periodStart, periodEnd),
         periodStart |-> toISODate(periodStart),
         periodEnd |-> toISODate(periodEnd)]

calculateConsistencyScore(list, reference) ==
    ScoreResult(list, reference, MetricsOf(list, reference))

(***************************************************************************)
(* The inputs: reference instants and session lists.                       *)
(***************************************************************************)
ISODate(y, m, d) == [year |-> y, month |-> m, date |-> d]

\* 2024-02-15T23:59:59Z (the tests' reference), 2024-03-10T00:00:00Z (the
\* window holds 29 February) and 2025-01-10T12:00:00Z (the window starts in
\* the year before)
ReferenceDates ==
    {setUTCHours(parseISODate(ISODate(2024, 2, 15)), 23, 59, 59, 0),
     setUTCHours(parseISODate(ISODate(2024, 3, 10)), 0, 0, 0, 0),
     setUTCHours(parseISODate(ISODate(2025, 1, 10)), 12, 0, 0, 0)}

\* <<days after the first day of the window, time of day>> of a session:
\* the last millisecond before the window, its first millisecond, 23:45 and
\* 00:15 either side of a midnight, mid-window, the last millisecond of the
\* window and the first one after it
SessionSlots ==
    {<<-1, MakeTime(23, 59, 59, 999)>>, <<0, 0>>,
     <<5, MakeTime(23, 45, 0, 0)>>, <<6, MakeTime(0, 15, 0, 0)>>,
     <<13, MakeTime(10, 0, 0, 0)>>,
     <<27, MakeTime(23, 59, 59, 999)>>, <<28, 0>>}

SessionAt(reference, slot) ==
    [startDate |-> [day |-> reference.day - 27 + slot[1], ms |-> slot[2]]]

\* offsets of the local time zone from UTC, in minutes: UTC and UTC-8
TimezoneOffsets == {0, 0 - 480}

\* Date.prototype.setHours(h, m, s, ms) in a zone `tz` minutes east of UTC
setHours(t, h, m, s, milli, tz) ==
    LET localMs == t.ms + tz * 60000
        localDay == t.day + (localMs \div MS_PER_DAY)
        utcMs == MakeTime(h, m, s, milli) - tz * 60000
    IN  [day |-> localDay + (utcMs \div MS_PER_DAY), ms |-> utcMs % MS_PER_DAY]

\* the tests' helper: a session at 10:00 UTC, daysAgo days before the reference
createSession(daysAgo, reference) ==
    [startDate |->
        setUTCHours(setUTCDate(reference, getUTCDate(reference) - daysAgo),
                    10, 0, 0, 0)]

\* a session at the given UTC time of day, daysAgo days before the reference
createSessionAt(daysAgo, reference, h, m, s, milli) ==
    [startDate |->
        setUTCHours(createSession(daysAgo, reference).startDate, h, m, s, milli)]

\* Test 1: three sessions, 1, 14 and 27 days before the reference
SparseSessions(reference) ==
    <<createSession(1, reference), createSession(14, reference),
      createSession(27, reference)>>

\* Test 2: a session on the days 0, 2, 4 and 6 (mod 7) before the reference
RECURSIVE DenseLoop(_, _)
DenseLoop(day, reference) ==
    IF day >= 28 THEN <<>>
    ELSE (IF day % 7 \in {0, 2, 4, 6}
          THEN <<createSession(day, reference)>> ELSE <<>>)
             \o DenseLoop(day + 1, reference)

\* Test 3: 23:45 five days before, 00:15 four days before, 12:00 three days
\* before the reference
MidnightSessions(reference) ==
    <<createSessionAt(5, reference, 23, 45, 0, 0),
      createSessionAt(4, reference, 0, 15, 0, 0),
      createSessionAt(3, reference, 12, 0, 0, 0)>>

\* Test 4: the first instant of the reference day, the first instant of the
\* period, day 10, day 15 at 10:00:00.789 and three sessions on day 5
WeirdSessions(reference) ==
    <<[startDate |-> setUTCHours(reference, 0, 0, 0, 0)],
      [startDate |->
          setUTCHours(setUTCDate(reference, getUTCDate(reference) - 27),
                      0, 0, 0, 0)],
      createSession(10, reference),
      createSessionAt(15, reference, 10, 0, 0, 789),
      createSessionAt(5, reference, 8, 0, 0, 0),
      createSessionAt(5, reference, 12, 30, 0, 0),
      createSessionAt(5, reference, 18, 30, 0, 0)>>

\* Perfect Consistency: a session every day, a second one at 18:00 local time
\* every third day
RECURSIVE PerfectLoop(_, _, _)
PerfectLoop(day, reference, tz) ==
    IF day >= 28 THEN <<>>
    ELSE <<createSession(day, reference)>>
             \o (IF day % 3 = 0
                 THEN <<[startDate |->
                           setHours(createSession(day, reference).startDate,
                                    18, 0, 0, 0, tz)]>>
                 ELSE <<>>)
             \o PerfectLoop(day + 1, reference, tz)

\* a list whose exact sum of components is 22.5 (7 active days on 4
\* weekdays, 8 sessions, no session in the last 18 days) while the double
\* sum is 22.499999999999996
HalfwaySessions(reference) ==
    <<createSession(27, reference), createSession(27, reference),
      createSession(26, reference), createSession(25, reference),
      createSession(24, reference), createSession(20, reference),
      createSession(19, reference), createSession(18, reference)>>

\* README walkthrough: sessions on the days 1, 5, 8, 10, 15, 17, 22, 24 and 27
\* of the window (day 1 its first day, 27 days before the reference), two of
\* them on day 5
WalkthroughSessions(reference) ==
    <<createSession(27, reference), createSession(23, reference),
      createSession(23, reference), createSession(20, reference),
      createSession(18, reference), createSession(13, reference),
      createSession(11, reference), createSession(6, reference),
      createSession(4, reference), createSession(1, reference)>>

\* two sessions on each of the 28 days
RECURSIVE TwiceADayLoop(_, _)
TwiceADayLoop(day, reference) ==
    IF day >= 28 THEN <<>>
    ELSE <<createSession(day, reference),
           createSessionAt(day, reference, 18, 0, 0, 0)>>
             \o TwiceADayLoop(day + 1, reference)

Tests ==
    {"sparse", "dense", "midnight", "weird", "perfect", "halfway",
     "walkthrough", "twice"}

TestSessions(test, reference, tz) ==
    CASE test = "sparse" -> SparseSessions(reference)
      [] test = "dense" -> DenseLoop(0, reference)
      [] test = "midnight" -> MidnightSessions(reference)
      [] test = "weird" -> WeirdSessions(reference)
      [] test = "perfect" -> PerfectLoop(0, reference, tz)
      [] test = "halfway" -> HalfwaySessions(reference)
      [] test = "walkthrough" -> WalkthroughSessions(reference)
      [] test = "twice" -> TwiceADayLoop(0, reference)

(***************************************************************************)
(* The state machine.                                                      *)
(***************************************************************************)
NoMetrics == [totalDays |-> 0]

NoResult == [score |-> 0 - 1]

NoRequest == [userId |-> ""]

NoSnapshot == [answered |-> FALSE]

NoResponse == [status |-> 0]

Init ==
    /\ referenceDate \in ReferenceDates
    /\ sessions = <<>>
    /\ pc = "build"
    /\ metrics = NoMetrics
    /\ result = NoResult
    /\ store = <<>>
    /\ request = NoRequest
    /\ snapshot = NoSnapshot
    /\ response = NoResponse

\* the caller appends one session to the list
AddSession(slot) ==
    /\ pc = "build"
    /\ Len(sessions) < MaxSessions
    /\ sessions' = Append(sessions, SessionAt(referenceDate, slot))
    /\ UNCHANGED <<referenceDate, pc, metrics, result, store, request,
                   snapshot, response>>

\* the caller appends the sessions one of the tests builds, the list whose
\* score lies halfway between two integers, the list of the README
\* walkthrough or two sessions a day
AddTestSessions(test, tz) ==
    /\ pc = "build"
    /\ Len(sessions) <= MaxPrefix
    /\ sessions' = sessions \o TestSessions(test, referenceDate, tz)
    /\ pc' = "loaded"
    /\ UNCHANGED <<referenceDate, metrics, result, store, request, snapshot,
                   response>>

\* calculateConsistencyScore(sessions, referenceDate)
Calculate ==
    /\ pc \in {"build", "loaded"}
    /\ metrics' = MetricsOf(sessions, referenceDate)
    /\ result' = ScoreResult(sessions, referenceDate, metrics')
    /\ pc' = "done"
    /\ UNCHANGED <<referenceDate, sessions, store, request, snapshot, response>>

Next ==
    \/ \E slot \in SessionSlots : AddSession(slot)
    \/ \E test \in Tests, tz \in TimezoneOffsets : AddTestSessions(test, tz)
    \/ Calculate

Spec == Init /\ [][Next]_vars

Done == pc = "done"

(***************************************************************************)
(* The HTTP endpoint: validate, fetchUserSessions, getConsistencyScore.    *)
(* A Date in the local time zone `tz` (minutes east of UTC) is the UTC     *)
(* Date of the shifted time value.                                         *)
(***************************************************************************)
ToLocal(t, tz) ==
    LET localMs == t.ms + tz * 60000
    IN  [day |-> t.day + (localMs \div MS_PER_DAY), ms |-> localMs % MS_PER_DAY]

FromLocal(l, tz) == ToLocal(l, 0 - tz)

\* Date.prototype.getDate
getDate(t, tz) == getUTCDate(ToLocal(t, tz))

\* Date.prototype.setDate
setDate(t, date, tz) == FromLocal(setUTCDate(ToLocal(t, tz), date), tz)

\* Date.prototype.getFullYear
getFullYear(t, tz) == Civil(ToLocal(t, tz).day).year

\* Date.prototype.setFullYear(year): keeps month, date and time of day
setFullYear(t, year, tz) ==
    LET l == ToLocal(t, tz)
        c == Civil(l.day)
    IN  FromLocal([day |-> MakeDay(year, c.month, c.date), ms |-> l.ms], tz)

\* String.prototype.trim on the userId parameters of the model
Trim(userId) == IF userId = " " THEN "" ELSE userId

\* validate(userId, referenceDate): the parameter referenceDate is "absent",
\* "invalid" (no date string) or "given" (it parses to `parsed`)
validate(userId, kind, parsed, now, tz) ==
    LET userErrors ==
            IF userId = "" THEN <<"userId is required">>
            ELSE IF Trim(userId) = ""
            THEN <<"userId must be a non-empty string">>
            ELSE <<>>
        maxFutureDate == setDate(now, getDate(now, tz) + 7, tz)
        minPastDate == setFullYear(now, getFullYear(now, tz) - 1, tz)
        dateErrors ==
            IF kind = "absent" THEN <<>>
            ELSE IF kind = "invalid"
            THEN <<"referenceDate must be a valid ISO 8601 date string">>
            ELSE (IF ~DateLeq(parsed, maxFutureDate)
                  THEN <<"referenceDate cannot be more than 7 days in the future">>
                  ELSE <<>>)
                 \o (IF ~DateLeq(minPastDate, parsed)
                     THEN <<"referenceDate cannot be more than 1 year in the past">>
                     ELSE <<>>)
        errors == userErrors \o dateErrors
    IN  [valid |-> errors = <<>>,
         errors |-> errors,
         userId |-> Trim(userId),
         hasReferenceDate |-> kind = "given",
         referenceDate |-> parsed]

\* .orderBy("startTime", "desc"): insertion of a document into an ordered list
InsertDoc(ordered, doc) ==
    LET before == SelectSeq(ordered, LAMBDA d : ~DateLeq(d.startTime, doc.startTime))
        after == SelectSeq(ordered, LAMBDA d : DateLeq(d.startTime, doc.startTime))
    IN  before \o <<doc>> \o after

RECURSIVE OrderByStartTimeDesc(_, _, _)
OrderByStartTimeDesc(docs, i, ordered) ==
    IF i > Len(docs) \/ Len(ordered) >= i THEN ordered
    ELSE OrderByStartTimeDesc(docs, i + 1, InsertDoc(ordered, docs[i]))

\* the lower bound of the query
FetchPeriodStart(reference, tz) ==
    setHours(setDate(reference, getDate(reference, tz) - 27, tz), 0, 0, 0, 0, tz)

\* the documents the query returns from the collection `docs`
QuerySnapshot(docs, userId, periodStart, reference) ==
    OrderByStartTimeDesc(
        SelectSeq(docs,
                  LAMBDA d : /\ d.userId = userId
                             /\ DateLeq(periodStart, d.startTime)
                             /\ DateLeq(d.startTime, reference)),
        1, <<>>)

\* snapshot.docs.map(...): startDate: new Date(data.startTime)
DocToSession(doc) == [startDate |-> doc.startTime]

MapDocs(docs) == [i \in 1..Len(docs) |-> DocToSession(docs[i])]

\* fetchUserSessions when the collection does not change while it runs
fetchUserSessions(docs, userId, reference, tz) ==
    MapDocs(QuerySnapshot(docs, userId, FetchPeriodStart(reference, tz),
                          reference))

\* the inputs of the endpoint
Users == {"u1", "u2"}

UserIdParams == {"", " "} \cup Users

Methods == {"GET", "POST"}

ReferenceParams == {"absent", "invalid", "given"}

\* the clock of the server, in days after the reference date of the request:
\* the same instant, 8 days earlier, 366 days later
ClockDays == {0 - 8, 0, 366}

\* <<days after the first day of the window, time of day>> of a stored
\* session: the first millisecond of the window, mid-window, the last
\* millisecond of the window, the first one after it
StoreSlots ==
    {<<0, 0>>, <<13, MakeTime(10, 0, 0, 0)>>,
     <<27, MakeTime(23, 59, 59, 999)>>, <<28, 0>>}

\* a session document is written to the collection, before a request or
\* while its handler waits
StoreSession(userId, slot) ==
    /\ pc \in {"build", "waiting", "answered"}
    /\ Len(store) < MaxStored
    /\ store' = Append(store, [userId |-> userId,
                               startTime |-> SessionAt(referenceDate, slot).startDate])
    /\ UNCHANGED <<referenceDate, sessions, pc, metrics, result, request,
                   snapshot, response>>

\* res.status(200).json({success: true, userId, ...result})
OkResponse(userId, r) ==
    [status |-> 200, success |-> TRUE, userId |-> userId, score |-> r.score,
     explanations |-> r.explanations, chartData |-> r.chartData,
     periodStart |-> r.periodStart, periodEnd |-> r.periodEnd]

\* the handler of GET /getConsistencyScore, up to its await: it answers a
\* wrong method or invalid parameters at once, else it sends the query of
\* fetchUserSessions and waits
GetConsistencyScore(method, userId, kind, clock, tz) ==
    LET now == [day |-> referenceDate.day + clock, ms |-> referenceDate.ms]
        validation == validate(userId, kind, referenceDate, now, tz)
        validReferenceDate ==
            IF validation.hasReferenceDate THEN validation.referenceDate ELSE now
    IN  /\ pc = "build"
        /\ IF method # "GET"
           THEN /\ response' = [status |-> 405,
                                error |-> "Method not allowed. Use GET."]
                /\ pc' = "served"
                /\ UNCHANGED <<referenceDate, request>>
           ELSE IF ~validation.valid
           THEN /\ response' = [status |-> 400, error |-> "Validation failed",
                                details |-> validation.errors]
                /\ pc' = "served"
                /\ UNCHANGED <<referenceDate, request>>
           ELSE /\ referenceDate' = validReferenceDate
                /\ request' = [userId |-> validation.userId,
                               periodStart |->
                                  FetchPeriodStart(validReferenceDate, tz)]
                /\ pc' = "waiting"
                /\ UNCHANGED response
        /\ UNCHANGED <<sessions, metrics, result, store, snapshot>>

\* Firestore answers the query from the collection as it is now, or fails
AnswerQuery(firestoreUp) ==
    /\ pc = "waiting"
    /\ snapshot' =
          IF firestoreUp
          THEN [answered |-> TRUE, ok |-> TRUE,
                docs |-> QuerySnapshot(store, request.userId,
                                       request.periodStart, referenceDate),
                collection |-> store]
          ELSE [answered |-> TRUE, ok |-> FALSE]
    /\ pc' = "answered"
    /\ UNCHANGED <<referenceDate, sessions, metrics, result, store, request,
                   response>>

\* the handler resumes after its await: it maps the documents, scores them
\* and answers 200, or answers 500 when the query failed
SendResponse(development) ==
    /\ pc = "answered"
    /\ pc' = "served"
    /\ IF snapshot.ok
       THEN /\ sessions' = MapDocs(snapshot.docs)
            /\ metrics' = MetricsOf(sessions', referenceDate)
            /\ result' = ScoreResult(sessions', referenceDate, metrics')
            /\ response' = OkResponse(request.userId, result')
       ELSE /\ response'
                 = [status |-> 500,
                    error |-> "Internal server error",
                    message |->
                      IF development
                      THEN "Failed to fetch exercise sessions from Firestore"
                      ELSE "Failed to calculate consistency score"]
            /\ UNCHANGED <<sessions, metrics, result>>
    /\ UNCHANGED <<referenceDate, store, request, snapshot>>

EndpointNext ==
    \/ \E userId \in Users, slot \in StoreSlots : StoreSession(userId, slot)
    \/ \E method \in Methods, userId \in UserIdParams,
          kind \in ReferenceParams, clock \in ClockDays,
          tz \in TimezoneOffsets :
            GetConsistencyScore(method, userId, kind, clock, tz)
    \/ \E firestoreUp \in BOOLEAN : AnswerQuery(firestoreUp)
    \/ \E development \in BOOLEAN : SendResponse(development)

EndpointSpec == Init /\ [][EndpointNext]_vars

(***************************************************************************)
(* The vocabulary of the properties: the window and the sessions in it,    *)
(* read off the inputs.                                                    *)
(***************************************************************************)
\* 00:00:00.000 UTC of the first day of the window
WindowStartInstant == [day |-> referenceDate.day - 27, ms |-> 0]

\* 23:59:59.999 UTC of the reference day
WindowEndInstant == [day |-> referenceDate.day, ms |-> MS_PER_DAY - 1]

InWindow(s) ==
    DateLeq(WindowStartInstant, s.startDate)
        /\ DateLeq(s.startDate, WindowEndInstant)

\* the positions of the sessions that start in the window
InWindowIndexes == {i \in 1..Len(sessions) : InWindow(sessions[i])}

\* those on the k-th day of the window, k = 0 .. 27
SessionsOnOffset(k) ==
    {i \in InWindowIndexes :
        sessions[i].startDate.day = referenceDate.day - 27 + k}

\* the days of the window, 0 .. 27, with a session
ActiveOffsets ==
    {sessions[i].startDate.day - (referenceDate.day - 27) : i \in InWindowIndexes}

\* those on weekday w, 0 = Sunday (1970-01-01 was a Thursday)
SessionsOnWeekday(w) ==
    {i \in InWindowIndexes : (sessions[i].startDate.day + 4) % 7 = w}

ActiveWeekdays ==
    {(sessions[i].startDate.day + 4) % 7 : i \in InWindowIndexes}

RECURSIVE SumOfCounts(_, _)
SumOfCounts(chart, n) ==
    IF n = 0 THEN 0 ELSE SumOfCounts(chart, n - 1) + chart[n].count

RECURSIVE SumOfSeq(_, _)
SumOfSeq(seq, n) == IF n = 0 THEN 0 ELSE SumOfSeq(seq, n - 1) + seq[n]

\* the calendar date after d, by the lengths of the months
NextCalendarDate(d) ==
    IF d.date < DaysInMonth(d.year, d.month - 1)
    THEN ISODate(d.year, d.month, d.date + 1)
    ELSE IF d.month < 12
    THEN ISODate(d.year, d.month + 1, 1)
    ELSE ISODate(d.year + 1, 1, 1)

\* a is an earlier calendar date than b
DateBefore(a, b) ==
    \/ a.year < b.year
    \/ a.year = b.year /\ a.month < b.month
    \/ a.year = b.year /\ a.month = b.month /\ a.date < b.date

(***************************************************************************)
(* C1: for every session list and every reference instant the score is an  *)
(* integer with 0 <= score <= 100.                                         *)
(***************************************************************************)
ScoreInRange == pc = "done" => result.score \in 0..100

\* a scored list with a session outside the window and two on one day
ScoreInRangeWitness ==
    /\ pc = "done"
    /\ result.score > 0
    /\ \E i \in 1..Len(sessions) : ~InWindow(sessions[i])
    /\ \E k \in 0..27 : Cardinality(SessionsOnOffset(k)) >= 2

(***************************************************************************)
(* C2: the score is the sum of the four components, rounded half up (the   *)
(* sum being the double the code adds up) and clamped to 0..100, where     *)
(* frequency = daysWithActivity / 28 * 50 in [0, 50]; gap = 25 for a       *)
(* longest gap <= 3, 0 for one >= 14, else 25 * (14 - gap) / 11, in        *)
(* [0, 25] and non-increasing in the gap; distribution = weekdays with a   *)
(* session in the window / 7 * 15 in [0, 15]; intensity = 0 without active *)
(* days, else for r = totalSessions / daysWithActivity 0 if r <= 1, 10 if  *)
(* r >= 2, else 10 * (r - 1), in [0, 10].                                  *)
(***************************************************************************)
SpecFrequency == Rat(metrics.daysWithActivity * 50, 28)

SpecGap(longestGap) ==
    IF longestGap <= 3 THEN Rat(25, 1)
    ELSE IF longestGap >= 14 THEN Rat(0, 1)
    ELSE Rat(25 * (14 - longestGap), 11)

SpecDistribution == Rat(Cardinality(ActiveWeekdays) * 15, 7)

SpecIntensity ==
    LET d == metrics.daysWithActivity
        t == metrics.totalSessions
    IN  IF d = 0 THEN Rat(0, 1)
        ELSE IF t <= d THEN Rat(0, 1)
        ELSE IF t >= 2 * d THEN Rat(10, 1)
        ELSE Rat(10 * (t - d), d)

SpecSum ==
    RatAdd(RatAdd(RatAdd(SpecFrequency, SpecGap(metrics.longestGap)),
                  SpecDistribution),
           SpecIntensity)

SpecRounded ==
    IF DoubleSumBelowHalf(metrics) THEN RatFloor(SpecSum)
    ELSE RoundHalfUp(SpecSum)

RatBetween(x, lo, hi) == RatLeq(Rat(lo, 1), x) /\ RatLeq(x, Rat(hi, 1))

ScoreFormula ==
    pc = "done" =>
        /\ result.score = Min(100, Max(0, SpecRounded))
        /\ RatEq(calculateFrequencyScore(metrics), SpecFrequency)
        /\ RatEq(calculateGapScore(metrics), SpecGap(metrics.longestGap))
        /\ RatEq(calculateDistributionScore(metrics), SpecDistribution)
        /\ RatEq(calculateIntensityScore(metrics), SpecIntensity)
        /\ RatBetween(calculateFrequencyScore(metrics), 0, 50)
        /\ RatBetween(calculateGapScore(metrics), 0, 25)
        /\ RatBetween(calculateDistributionScore(metrics), 0, 15)
        /\ RatBetween(calculateIntensityScore(metrics), 0, 10)
        /\ \A g \in 0..27 :
              RatLeq(calculateGapScore([metrics EXCEPT !.longestGap = g + 1]),
                     calculateGapScore([metrics EXCEPT !.longestGap = g]))

\* all four components strictly inside their ranges
ScoreFormulaWitness ==
    /\ pc = "done"
    /\ metrics.longestGap \in 4..13
    /\ metrics.totalSessions > metrics.daysWithActivity
    /\ metrics.totalSessions < 2 * metrics.daysWithActivity
    /\ Cardinality(ActiveWeekdays) \in 1..6
    /\ result.score \in 1..99

(***************************************************************************)
(* C3: chartData has exactly 28 entries, their dates strictly ascending    *)
(* consecutive calendar dates, the first equal to periodStart (the         *)
(* reference's UTC date minus 27 days), the last equal to periodEnd (the   *)
(* reference's UTC date), whatever the reference's time of day.            *)
(***************************************************************************)
ChartDatesConsecutive ==
    pc = "done" =>
        /\ Len(result.chartData) = 28
        /\ \A i \in 1..27 :
              /\ result.chartData[i + 1].date
                    = NextCalendarDate(result.chartData[i].date)
              /\ DateBefore(result.chartData[i].date,
                            result.chartData[i + 1].date)
        /\ result.chartData[1].date = result.periodStart
        /\ result.chartData[28].date = result.periodEnd
        /\ result.periodEnd = toISODate(referenceDate)
        /\ result.periodStart
              = toISODate([day |-> referenceDate.day - 27, ms |-> 0])

\* a reference at 00:00:00.000 whose window runs over 29 February
ChartDatesConsecutiveWitness ==
    /\ pc = "done"
    /\ referenceDate.ms = 0
    /\ \E i \in 1..28 : result.chartData[i].date = ISODate(2024, 2, 29)
    /\ result.periodStart.month # result.periodEnd.month

(***************************************************************************)
(* C4: the chart entry for a date counts the input sessions that start in  *)
(* the window on that UTC date (all of them, no deduplication); the counts *)
(* add up to the number of sessions in the window and to the totalSessions *)
(* used for scoring, and the entries with a count > 0 are as many as the   *)
(* daysWithActivity that explanations[0] reports.                          *)
(***************************************************************************)
ChartMatchesBuckets ==
    pc = "done" =>
        LET activeEntries ==
                {k \in 1..28 : result.chartData[k].count > 0}
        IN  /\ \A k \in 0..27 :
                  result.chartData[k + 1].count
                      = Cardinality(SessionsOnOffset(k))
            /\ SumOfCounts(result.chartData, 28)
                  = Cardinality(InWindowIndexes)
            /\ SumOfCounts(result.chartData, 28) = metrics.totalSessions
            /\ Cardinality(activeEntries) = metrics.daysWithActivity
            /\ result.explanations[1]
                  = "You trained on " \o IntToStr(Cardinality(activeEntries))
                        \o " out of 28 days"

\* 23:45 and 00:15 either side of a midnight, two sessions on the later date
ChartMatchesBucketsWitness ==
    /\ pc = "done"
    /\ \E k \in 0..26 :
          /\ result.chartData[k + 1].count = 1
          /\ result.chartData[k + 2].count = 2
          /\ \E i \in SessionsOnOffset(k), j \in SessionsOnOffset(k + 1) :
                /\ sessions[i].startDate.ms = MakeTime(23, 45, 0, 0)
                /\ sessions[j].startDate.ms = MakeTime(0, 15, 0, 0)

(***************************************************************************)
(* C5: a session is counted, in daysWithActivity, totalSessions, the       *)
(* weekday histogram and chartData, if and only if window.start <=         *)
(* startInstant <= window.end: one exactly at either end is counted, one a *)
(* millisecond outside is not.                                             *)
(***************************************************************************)
CountedIffInWindow ==
    pc = "done" =>
        /\ metrics.totalSessions = Cardinality(InWindowIndexes)
        /\ metrics.daysWithActivity = Cardinality(ActiveOffsets)
        /\ \A w \in 0..6 :
              metrics.weeklyDistribution[w + 1]
                  = Cardinality(SessionsOnWeekday(w))
        /\ SumOfSeq(metrics.weeklyDistribution, 7)
              = Cardinality(InWindowIndexes)
        /\ {k \in 0..27 : result.chartData[k + 1].count > 0} = ActiveOffsets
        /\ SumOfCounts(result.chartData, 28) = Cardinality(InWindowIndexes)

\* sessions exactly at both ends of the window are counted, the one a
\* millisecond before it is not
CountedIffInWindowWitness ==
    /\ pc = "done"
    /\ Len(sessions) = 3
    /\ \E i, j, k \in 1..3 :
          /\ sessions[i].startDate = WindowStartInstant
          /\ sessions[j].startDate = WindowEndInstant
          /\ sessions[k].startDate
                = [day |-> referenceDate.day - 28, ms |-> MS_PER_DAY - 1]
    /\ metrics.totalSessions = 2
    /\ result.chartData[1].count = 1
    /\ result.chartData[28].count = 1

(***************************************************************************)
(* C6: the result (score, explanations, chartData, periodStart, periodEnd) *)
(* is the same for every permutation of the session list.  Checked for     *)
(* every permutation of a list of up to 3 sessions; for a longer list, for *)
(* its reversal, its rotation by one and the exchange of its first two     *)
(* sessions (a rotation and one exchange generate every permutation).      *)
(***************************************************************************)
Permuted(list, f) == [i \in 1..Len(list) |-> list[f[i]]]

Reversed(list) == [i \in 1..Len(list) |-> list[Len(list) + 1 - i]]

Rotated(list) == Tail(list) \o <<Head(list)>>

FirstTwoExchanged(list) == <<list[2], list[1]>> \o Tail(Tail(list))

Reorderings(list) ==
    IF Len(list) <= 3
    THEN {Permuted(list, f) : f \in Permutations(1..Len(list))}
    ELSE {Reversed(list), Rotated(list), FirstTwoExchanged(list)}

OrderIndependent ==
    pc = "done" =>
        \A p \in Reorderings(sessions) :
            calculateConsistencyScore(p, referenceDate) = result

\* three sessions on three days of the window, given latest first
OrderIndependentWitness ==
    /\ pc = "done"
    /\ Len(sessions) = 3
    /\ InWindowIndexes = {1, 2, 3}
    /\ sessions[1].startDate.day > sessions[2].startDate.day
    /\ sessions[2].startDate.day > sessions[3].startDate.day

(***************************************************************************)
(* C7: when no session falls in the window (for the empty list too) the    *)
(* result is score 0, longestGap 28, explanations[0] = "You trained on 0   *)
(* out of 28 days", no weekday-spread and no intensity sentence, and 28    *)
(* chart entries of count 0.                                               *)
(***************************************************************************)
NothingInWindow ==
    pc = "done" /\ InWindowIndexes = {} =>
        /\ result.score = 0
        /\ metrics.longestGap = 28
        /\ result.explanations
              = <<"You trained on 0 out of 28 days", "Longest break: 28 days">>
        /\ Len(result.chartData) = 28
        /\ \A k \in 1..28 : result.chartData[k].count = 0

\* two sessions, one before the window and one after it, have been scored
NothingInWindowWitness ==
    /\ pc = "done"
    /\ Len(sessions) = 2
    /\ InWindowIndexes = {}
    /\ DateBefore(toISODate(sessions[1].startDate), result.periodStart)
    /\ DateBefore(result.periodEnd, toISODate(sessions[2].startDate))
    /\ result.score = 0

(***************************************************************************)
(* C8: longestGap is the length of the longest run of consecutive days of  *)
(* the window without a session; it is 28 when no day is active, 0 exactly *)
(* when all 28 days are active, and the same whatever the times of day of  *)
(* the sessions.                                                           *)
(***************************************************************************)
\* n consecutive days of the window from day a on, none of them active
InactiveRun(active, a, n) == \A k \in a..(a + n - 1) : k \notin active

LongestInactiveRun ==
    LET active == ActiveOffsets
        lengths == {n \in 0..28 :
                       \E a \in 0..(28 - n) : InactiveRun(active, a, n)}
    IN  CHOOSE x \in lengths : \A y \in lengths : y <= x

\* the same sessions, each moved to the first instant of its day
AtStartOfDay(list) ==
    [i \in 1..Len(list) |->
        [startDate |-> [day |-> list[i].startDate.day, ms |-> 0]]]

LongestGapIsLongestRun ==
    pc = "done" =>
        /\ metrics.longestGap = LongestInactiveRun
        /\ ActiveOffsets = {} => metrics.longestGap = 28
        /\ metrics.longestGap = 0 <=> ActiveOffsets = 0..27
        /\ MetricsOf(AtStartOfDay(sessions), referenceDate).longestGap
              = metrics.longestGap

\* every day of the window is active
LongestGapIsLongestRunWitness ==
    /\ pc = "done"
    /\ ActiveOffsets = 0..27
    /\ metrics.longestGap = 0

(***************************************************************************)
(* C9: for a non-empty bucket map, the leading gap and the trailing gap    *)
(* that the gap analysis computes.                                         *)
(***************************************************************************)
FirstActiveOffset ==
    LET active == ActiveOffsets
    IN  CHOOSE k \in active : \A j \in active : k <= j

LastActiveOffset ==
    LET active == ActiveOffsets
    IN  CHOOSE k \in active : \A j \in active : j <= k

ActiveDatesOfInput ==
    ActiveDates(GroupSessions(RelevantSessions(sessions,
                                               PeriodStart(referenceDate),
                                               PeriodEnd(referenceDate)))
                    .sessionsByDay)

LeadingGap == GapFromStart(ActiveDatesOfInput, PeriodStart(referenceDate))

TrailingGap == GapToEnd(ActiveDatesOfInput, PeriodEnd(referenceDate))

\* C9 as stated: a first active date k >= 1 days after the window start date
\* gives a leading gap of k - 1, a last active date k >= 1 days before the
\* window end date a trailing gap of k - 1
EdgeGapsStrictlyBetween ==
    pc = "done" /\ ActiveOffsets # {} =>
        /\ FirstActiveOffset >= 1 => LeadingGap = FirstActiveOffset - 1
        /\ 27 - LastActiveOffset >= 1 => TrailingGap = 27 - LastActiveOffset - 1

\* C9 as amended: a first active date k >= 0 days after the window start date
\* gives a leading gap of k, a last active date k >= 0 days before the window
\* end date a trailing gap of k: the inactive days at an edge of the window,
\* the edge day included
EdgeGapsCountEdgeDay ==
    pc = "done" /\ ActiveOffsets # {} =>
        /\ LeadingGap = FirstActiveOffset
        /\ TrailingGap = 27 - LastActiveOffset

\* the first active day is after the first day of the window and the last
\* active day before its last day
EdgeGapsCountEdgeDayWitness ==
    /\ pc = "done"
    /\ ActiveOffsets # {}
    /\ FirstActiveOffset >= 1
    /\ LastActiveOffset <= 26
    /\ LeadingGap >= 1
    /\ TrailingGap >= 1

(***************************************************************************)
(* C10: explanations is built by ordered appends: first "You trained on    *)
(* {daysWithActivity} out of 28 days"; second the gap sentence (the no-gap *)
(* literal for 0, "Longest break: 1 day" for 1, else "Longest break: {n}   *)
(* days"); then the weekday-spread sentence iff the number d of active     *)
(* weekdays is > 0 (great variety for d >= 6, "Good spread across {d}      *)
(* different weekdays" for 4 <= d < 6, "Training focused on {d} weekdays"  *)
(* for 0 < d < 4); last the intensity sentence iff totalSessions /         *)
(* daysWithActivity >= 1.4.  The list has 2 to 4 entries.                  *)
(***************************************************************************)
ExpectedGapSentence ==
    IF metrics.longestGap = 0 THEN "Amazing! No gaps in your training"
    ELSE IF metrics.longestGap = 1 THEN "Longest break: 1 day"
    ELSE "Longest break: " \o IntToStr(metrics.longestGap) \o " days"

ExpectedSpread ==
    LET d == Cardinality(ActiveWeekdays)
    IN  IF d >= 6
        THEN <<"Great variety! You trained on 6+ different weekdays">>
        ELSE IF 4 <= d /\ d < 6
        THEN <<"Good spread across " \o IntToStr(d) \o " different weekdays">>
        ELSE IF 0 < d /\ d < 4
        THEN <<"Training focused on " \o IntToStr(d) \o " weekdays">>
        ELSE <<>>

\* totalSessions / daysWithActivity >= 1.4, as 10 * sessions >= 14 * days
IntensityNotable ==
    /\ metrics.daysWithActivity > 0
    /\ 10 * metrics.totalSessions >= 14 * metrics.daysWithActivity

ExpectedIntensity ==
    IF IntensityNotable
    THEN <<"High intensity: "
               \o toFixed1(Rat(metrics.totalSessions, metrics.daysWithActivity))
               \o " sessions per active day">>
    ELSE <<>>

ExplanationsOrdered ==
    pc = "done" =>
        /\ result.explanations
              = <<"You trained on " \o IntToStr(metrics.daysWithActivity)
                      \o " out of 28 days",
                  ExpectedGapSentence>>
                    \o ExpectedSpread \o ExpectedIntensity
        /\ Len(result.explanations) \in 2..4
        /\ Len(result.explanations)
              = 2 + (IF Cardinality(ActiveWeekdays) > 0 THEN 1 ELSE 0)
                  + (IF IntensityNotable THEN 1 ELSE 0)

\* an average of exactly 1.4 sessions per active day: four sentences
ExplanationsOrderedWitness ==
    /\ pc = "done"
    /\ metrics.daysWithActivity > 0
    /\ 10 * metrics.totalSessions = 14 * metrics.daysWithActivity
    /\ Len(result.explanations) = 4
    /\ result.explanations[4] = "High intensity: 1.4 sessions per active day"

(***************************************************************************)
(* C11: with sessions on the window days 1, 5, 8, 10, 15, 17, 22, 24 and   *)
(* 27 (day 1 the window start date), two on day 5 and one on each other    *)
(* day, the engine computes daysWithActivity = 9, longestGap = 4 and 4     *)
(* distinct weekdays, and returns score = 48 and explanations[0] = "You    *)
(* trained on 9 out of 28 days".                                           *)
(***************************************************************************)
WalkthroughCount(day) ==
    IF day = 5 THEN 2
    ELSE IF day \in {1, 8, 10, 15, 17, 22, 24, 27} THEN 1
    ELSE 0

\* the in-window sessions of the input are those of the walkthrough
WalkthroughPattern ==
    \A day \in 1..28 :
        Cardinality(SessionsOnOffset(day - 1)) = WalkthroughCount(day)

WalkthroughScore ==
    pc = "done" /\ WalkthroughPattern =>
        /\ metrics.daysWithActivity = 9
        /\ metrics.totalSessions = 10
        /\ metrics.longestGap = 4
        /\ CountPositive(metrics.weeklyDistribution) = 4
        /\ result.score = 48
        /\ result.explanations[1] = "You trained on 9 out of 28 days"

\* the walkthrough list itself has been scored
WalkthroughScoreWitness ==
    /\ pc = "done"
    /\ sessions = WalkthroughSessions(referenceDate)
    /\ WalkthroughPattern
    /\ result.score = 48

(***************************************************************************)
(* C12: whenever each of the 28 window days has a session and the average  *)
(* number of sessions per active day is at least 2, the score is above 90; *)
(* the test's list, one session on each of the 28 days and a second one on *)
(* every third day, scores above 90 too, with explanations[0] = "You       *)
(* trained on 28 out of 28 days" and every chart count > 0.                *)
(***************************************************************************)
EveryDayTwice ==
    /\ ActiveOffsets = 0..27
    /\ Cardinality(InWindowIndexes) >= 2 * Cardinality(ActiveOffsets)

\* the list of the test, 28 + 10 sessions, built in one of the time zones
PerfectFixture ==
    /\ Len(sessions) = 38
    /\ \E tz \in TimezoneOffsets : sessions = PerfectLoop(0, referenceDate, tz)

PerfectScore ==
    pc = "done" =>
        /\ EveryDayTwice => result.score > 90
        /\ PerfectFixture =>
              /\ result.score > 90
              /\ result.explanations[1] = "You trained on 28 out of 28 days"
              /\ \A k \in 1..28 : result.chartData[k].count > 0

\* 28 active days with 56 sessions have been scored
PerfectScoreWitness ==
    /\ pc = "done"
    /\ EveryDayTwice
    /\ metrics.daysWithActivity = 28
    /\ metrics.totalSessions >= 56
    /\ result.score = 100

\* the test's list built west of Greenwich: the second session of the
\* reference day starts after the window
PerfectFixtureLocalTime ==
    /\ pc = "done"
    /\ PerfectFixture
    /\ Len(sessions) = 38
    /\ metrics.totalSessions = 37
    /\ result.score > 90

(***************************************************************************)
(* C13: whenever the window holds exactly 3 sessions on 3 distinct days    *)
(* and the longest gap is 13 days, the score is at least 0 and below 25,   *)
(* explanations contains "You trained on 3 out of 28 days" and a "Longest  *)
(* break" sentence, and exactly 3 chart entries have a count > 0.          *)
(***************************************************************************)
ThreeDaysGapOf13 ==
    /\ Cardinality(InWindowIndexes) = 3
    /\ Cardinality(ActiveOffsets) = 3
    /\ LongestInactiveRun = 13

Contains(seq, x) == \E i \in 1..Len(seq) : seq[i] = x

SparseScore ==
    pc = "done" /\ ThreeDaysGapOf13 =>
        /\ 0 <= result.score
        /\ result.score < 25
        /\ Contains(result.explanations, "You trained on 3 out of 28 days")
        /\ Contains(result.explanations, "Longest break: 13 days")
        /\ Cardinality({k \in 1..28 : result.chartData[k].count > 0}) = 3

\* three sessions on three days, the longest break of 13 days, scored
SparseScoreWitness ==
    /\ pc = "done"
    /\ ThreeDaysGapOf13
    /\ metrics.longestGap = 13
    /\ metrics.daysWithActivity = 3
    /\ result.score > 0

(***************************************************************************)
(* C14: the explanations returned for the README walkthrough list (9       *)
(* active days, 10 sessions, an average of 10/9 sessions per active day,   *)
(* longest gap 4, 4 distinct weekdays).                                    *)
(***************************************************************************)
\* C14 as stated: exactly four entries, the last one "High intensity: 1.1
\* sessions per active day"
WalkthroughFourExplanations ==
    pc = "done" /\ WalkthroughPattern =>
        result.explanations
            = <<"You trained on 9 out of 28 days",
                "Longest break: 4 days",
                "Good spread across 4 different weekdays",
                "High intensity: 1.1 sessions per active day">>

\* C14 as amended: exactly three entries, "You trained on 9 out of 28 days",
\* "Longest break: 4 days", "Good spread across 4 different weekdays"; there
\* is no intensity sentence, the average 10/9 being below 1.4
WalkthroughThreeExplanations ==
    pc = "done" /\ WalkthroughPattern =>
        /\ result.explanations
              = <<"You trained on 9 out of 28 days",
                  "Longest break: 4 days",
                  "Good spread across 4 different weekdays">>
        /\ 9 * metrics.totalSessions = 10 * metrics.daysWithActivity
        /\ ~IntensityNotable

\* the walkthrough list has been scored and explained
WalkthroughThreeExplanationsWitness ==
    /\ pc = "done"
    /\ sessions = WalkthroughSessions(referenceDate)
    /\ Len(result.explanations) = 3
    /\ toFixed1(metrics.averageSessionsPerActiveDay) = "1.1"

(***************************************************************************)
(* C15: for every set of stored sessions of a user and every accepted      *)
(* reference instant, the list that fetchUserSessions hands to the engine  *)
(* holds every stored session of that user that starts in the engine's     *)
(* window, so that the endpoint's score, explanations and chartData are    *)
(* those the engine computes over all stored sessions of the user.         *)
(***************************************************************************)
Served == pc = "served" /\ response.status = 200

\* every session of the user stored when the query was answered, in the
\* order of the collection
StoredSessionsOf(userId) ==
    MapDocs(SelectSeq(snapshot.collection, LAMBDA d : d.userId = userId))

Occurrences(seq, x) == Cardinality({i \in 1..Len(seq) : seq[i] = x})

\* the stored sessions of the user that start in the window but are not in
\* the list handed to the engine
MissingSessions ==
    LET stored == StoredSessionsOf(response.userId)
    IN  {i \in 1..Len(stored) :
            /\ InWindow(stored[i])
            /\ Occurrences(sessions, stored[i]) < Occurrences(stored, stored[i])}

FetchMissesNothing ==
    Served =>
        /\ MissingSessions = {}
        /\ LET engine == calculateConsistencyScore(
                             StoredSessionsOf(response.userId), referenceDate)
           IN  /\ response.score = engine.score
               /\ response.explanations = engine.explanations
               /\ response.chartData = engine.chartData

\* what the query does guarantee: the list handed to the engine holds stored
\* sessions of the user only, none that starts after the reference instant,
\* latest first
FetchedAreStored ==
    Served =>
        /\ \A i \in 1..Len(sessions) :
              /\ Occurrences(sessions, sessions[i])
                    <= Occurrences(StoredSessionsOf(response.userId), sessions[i])
              /\ DateLeq(sessions[i].startDate, referenceDate)
        /\ \A i \in 1..(Len(sessions) - 1) :
              DateLeq(sessions[i + 1].startDate, sessions[i].startDate)

\* a stored session of the user that starts in the window, after the
\* reference instant, is not fetched
FetchMissesLaterSession ==
    /\ Served
    /\ \E i \in MissingSessions :
          ~DateLeq(StoredSessionsOf(response.userId)[i].startDate, referenceDate)

\* a stored session of the user that starts in the window, not after the
\* reference instant, is not fetched: the window of the query starts at the
\* local midnight
FetchMissesEarlySession ==
    /\ Served
    /\ \E i \in MissingSessions :
          DateLeq(StoredSessionsOf(response.userId)[i].startDate, referenceDate)

=============================================================================
